---- MODULE Spec2Model ----
(***************************************************************************)
(* Model of the wstunnel client (client.py): the per-client tunnel session *)
(* BaseServer with its Watchdog, and the UDP and TCP listeners that create *)
(* and tear down sessions.  Every action is one run of a callback or of a  *)
(* coroutine between two suspension points of the asyncio event loop.      *)
(***************************************************************************)
EXTENDS Integers, Sequences, FiniteSets

\* ---- bounds of the model ----
MaxSessions == 2    \* sessions the UDP listener creates in one run
NumAddrs == 2       \* distinct UDP source addresses
MaxBuf == 2         \* buffers passed to data_received, over all sessions
MaxRecv == 1        \* tunnel messages received, over all sessions
MaxFail == 1        \* failed handshakes, sends and receives, over all sessions
MaxTimeout == 2     \* largest --idle-timeout value explored

Sess == 1..MaxSessions
Addrs == 1..NumAddrs

VARIABLES
    mode,          \* "udp": the UdpServer object; "tcp": one TcpServer object
                   \* (main() makes one per accepted connection, sharing nothing)
    idle_timeout,  \* args.idle_timeout
    nsess,         \* number of BaseServer objects constructed so far
    client,        \* BaseServer.client (UDP: source address, TCP: the connection)
    pc,            \* position of new_client: none, connecting, active, closing, ended
    shutdown,      \* BaseServer.shutdown future is done
    que,           \* BaseServer.que
    inflight,      \* the buffer ws.send is sending (at most one)
    snd,           \* ws_data_sender task: none, get, send, failed, cancelling, cancelled
    rcv,           \* ws_data_receiver task: none, recv, failed, cancelling, cancelled
    wd,            \* Watchdog.start task: none, run, raised, cancelling, cancelled
    cnt,           \* Watchdog.cnt
    base_servers,  \* UdpServer.base_servers (0: no entry)
    transport,     \* TcpServer.transport: none, open, closing, lost
    base,          \* TcpServer.base (0: None)
    \* ---- history of observable events ----
    enq,           \* buffers passed to data_received, in call order
    sent,          \* buffers for which ws.send returned, in order
    delivered,     \* number of f_write_to_transport calls
    notified,      \* number of f_conn_lost calls
    outcome,       \* what new_client took from done.pop(): none, abort, idle, error, connfail
    abortErr,      \* an abort() call raised InvalidStateError
    abortedEarly,  \* abort() was called while connecting or active
    quiet,         \* watchdog ticks since the last completed send or receive
    idleHit        \* quiet reached idle_timeout while the session was active
                   \* and nothing else in its race was done

vars == <<mode, idle_timeout, nsess, client, pc, shutdown, que, inflight, snd,
          rcv, wd, cnt, base_servers, transport, base, enq, sent, delivered,
          notified, outcome, abortErr, abortedEarly, quiet, idleHit>>

histVars == <<enq, sent, delivered, notified, outcome, abortErr, abortedEarly, quiet, idleHit>>

Created == 1..nsess

RECURSIVE Sum(_, _)
Sum(f, S) == IF S = {} THEN 0
             ELSE LET x == CHOOSE y \in S : TRUE IN f[x] + Sum(f, S \ {x})

TotalEnq == Sum([s \in Sess |-> Len(enq[s])], Sess)
TotalRecv == Sum(delivered, Sess)
Failures ==
    Cardinality({s \in Sess : outcome[s] = "connfail"})
      + Cardinality({s \in Sess : snd[s] = "failed"})
      + Cardinality({s \in Sess : rcv[s] = "failed"})

\* The payload is opaque to the program: the k-th buffer handed to a
\* session is named k.
NextData(s) == Len(enq[s]) + 1

Init ==
    /\ mode \in {"udp", "tcp"}
    /\ idle_timeout \in 0..MaxTimeout
    /\ nsess = 0
    /\ client = [s \in Sess |-> 0]
    /\ pc = [s \in Sess |-> "none"]
    /\ shutdown = [s \in Sess |-> FALSE]
    /\ que = [s \in Sess |-> <<>>]
    /\ inflight = [s \in Sess |-> <<>>]
    /\ snd = [s \in Sess |-> "none"]
    /\ rcv = [s \in Sess |-> "none"]
    /\ wd = [s \in Sess |-> "none"]
    /\ cnt = [s \in Sess |-> 0]
    /\ base_servers = [a \in Addrs |-> 0]
    /\ transport = "none"
    /\ base = 0
    /\ enq = [s \in Sess |-> <<>>]
    /\ sent = [s \in Sess |-> <<>>]
    /\ delivered = [s \in Sess |-> 0]
    /\ notified = [s \in Sess |-> 0]
    /\ outcome = [s \in Sess |-> "none"]
    /\ abortErr = [s \in Sess |-> FALSE]
    /\ abortedEarly = [s \in Sess |-> FALSE]
    /\ quiet = [s \in Sess |-> 0]
    /\ idleHit = [s \in Sess |-> FALSE]

\* ---- asyncio.Queue: put_nowait appends, get takes the head ----
QuePutFront(q, d) == <<d>> \o q
QuePut(q, d) == Append(q, d)

QueGetLast(q) == q[Len(q)]
QueGet(q) == Head(q)

QueRest(q) == Tail(q)

\* ---- BaseServer.data_received ----
data_received(s, d) ==
    /\ que' = [que EXCEPT ![s] = QuePut(que[s], d)]
    /\ enq' = [enq EXCEPT ![s] = Append(enq[s], d)]

\* ---- BaseServer.__init__: fresh future and queue, new_client scheduled ----
BaseServerInit(s, c) ==
    /\ nsess' = s
    /\ client' = [client EXCEPT ![s] = c]
    /\ pc' = [pc EXCEPT ![s] = "connecting"]

\* ---- UdpServer.datagram_received ----
TableLookupMiss(a) == 0
TableLookup(a) == base_servers[a]

datagram_received(a) ==
    /\ mode = "udp"
    /\ TotalEnq < MaxBuf
    /\ LET found == TableLookup(a) IN
       IF found = 0
       THEN /\ nsess < MaxSessions
            /\ BaseServerInit(nsess + 1, a)
            /\ base_servers' = [base_servers EXCEPT ![a] = nsess + 1]
            /\ data_received(nsess + 1, NextData(nsess + 1))
       ELSE /\ data_received(found, NextData(found))
            /\ UNCHANGED <<nsess, client, pc, base_servers>>
    /\ UNCHANGED <<mode, idle_timeout, shutdown, inflight, snd, rcv, wd, cnt,
                   transport, base, sent, delivered, notified, outcome, abortErr,
                   abortedEarly, quiet, idleHit>>

\* ---- TcpServer.connection_made ----
connection_made ==
    /\ mode = "tcp"
    /\ transport = "none"
    /\ BaseServerInit(1, 1)
    /\ transport' = "open"
    /\ base' = 1
    /\ UNCHANGED <<mode, idle_timeout, shutdown, que, inflight, snd, rcv, wd,
                   cnt, base_servers>>
    /\ UNCHANGED histVars

\* ---- TcpServer.data_received ----
tcp_data_received ==
    /\ mode = "tcp"
    /\ transport = "open"
    /\ TotalEnq < MaxBuf
    /\ data_received(base, NextData(base))
    /\ UNCHANGED <<mode, idle_timeout, nsess, client, pc, shutdown, inflight,
                   snd, rcv, wd, cnt, base_servers, transport, base, sent, delivered,
                   notified, outcome, abortErr, abortedEarly, quiet, idleHit>>

\* ---- BaseServer.abort: Future.set_result raises InvalidStateError when the
\* ---- future is already done ----
abort(s) ==
    /\ shutdown' = [shutdown EXCEPT ![s] = TRUE]
    /\ abortErr' = [abortErr EXCEPT ![s] = @ \/ shutdown[s]]
    /\ abortedEarly' = [abortedEarly EXCEPT
                          ![s] = @ \/ (~shutdown[s] /\ pc[s] \in {"connecting", "active"})]

\* ---- TcpServer.connection_lost ----
connection_lost ==
    /\ mode = "tcp"
    /\ transport \in {"open", "closing"}
    /\ transport' = "lost"
    /\ abort(base)
    /\ UNCHANGED <<mode, idle_timeout, nsess, client, pc, que, inflight, snd,
                   rcv, wd, cnt, base_servers, base, enq, sent, delivered, notified,
                   outcome, quiet, idleHit>>

\* ---- a repeated call of BaseServer.abort on the same session ----
AbortAgain(s) ==
    /\ s \in Created
    /\ shutdown[s]
    /\ abort(s)
    /\ UNCHANGED <<mode, idle_timeout, nsess, client, pc, que, inflight, snd,
                   rcv, wd, cnt, base_servers, transport, base, enq, sent, delivered,
                   notified, outcome, quiet, idleHit>>

\* ---- Watchdog.reset (a no-op when watchdog is None) ----
WatchdogResetNone(s) == cnt' = cnt
WatchdogReset(s) ==
    cnt' = [cnt EXCEPT ![s] = IF wd[s] = "none" THEN @ ELSE 0]

\* ---- the queue the sender task reads after the handshake: self.que ----
SenderQueueFresh(s) == <<>>
SenderQueue(s) == que[s]

\* ---- ws_data_sender from "await que.get()" to the next suspension: with
\* ---- an empty queue it waits in get, otherwise ws.send starts ----
SenderNextIdle(s, q) ==
    /\ snd' = [snd EXCEPT ![s] = "get"]
    /\ que' = [que EXCEPT ![s] = q]
    /\ inflight' = [inflight EXCEPT ![s] = <<>>]

SenderNext(s, q) ==
    IF q = <<>>
    THEN /\ snd' = [snd EXCEPT ![s] = "get"]
         /\ que' = [que EXCEPT ![s] = q]
         /\ inflight' = [inflight EXCEPT ![s] = <<>>]
    ELSE /\ snd' = [snd EXCEPT ![s] = "send"]
         /\ que' = [que EXCEPT ![s] = QueRest(q)]
         /\ inflight' = [inflight EXCEPT ![s] = <<QueGet(q)>>]

\* ---- new_client: websockets.connect succeeded; the tasks are created and
\* ---- run to their first suspension before any other callback ----
WatchdogEnabledAlways(t) == TRUE
WatchdogEnabled(t) == t # 0

HandshakeOk(s) ==
    /\ pc[s] = "connecting"
    /\ pc' = [pc EXCEPT ![s] = "active"]
    /\ wd' = [wd EXCEPT ![s] = IF WatchdogEnabled(idle_timeout) THEN "run" ELSE "none"]
    /\ cnt' = [cnt EXCEPT ![s] = 0]
    /\ SenderNext(s, SenderQueue(s))
    /\ rcv' = [rcv EXCEPT ![s] = "recv"]
    /\ quiet' = [quiet EXCEPT ![s] = 0]
    /\ UNCHANGED <<mode, idle_timeout, nsess, client, shutdown, base_servers,
                   transport, base, enq, sent, delivered, notified, outcome,
                   abortErr, abortedEarly, idleHit>>

\* ---- UdpServer.upstream_lost: base_servers.pop(addr) ----
TablePopAll(t, a) == [b \in Addrs |-> 0]
TablePopNone(t, a) == t
TablePop(t, a) == [t EXCEPT ![a] = 0]

\* ---- new_client, finally: "if not self.shutdown.done()" ----
ShouldNotifyAlways(s) == TRUE
ShouldNotifyNever(s) == FALSE
ShouldNotify(s) == ~shutdown[s]

\* ---- f_conn_lost(self.client): UdpServer.upstream_lost or
\* ---- TcpServer.upstream_lost (transport.close()) ----
f_conn_lost(s) ==
    /\ notified' = [notified EXCEPT ![s] = @ + 1]
    /\ IF mode = "udp"
       THEN /\ base_servers' = TablePop(base_servers, client[s])
            /\ UNCHANGED transport
       ELSE /\ transport' = (IF transport = "open" THEN "closing" ELSE transport)
            /\ UNCHANGED base_servers

\* ---- Task.cancel on a task that has not finished ----
CancelNone(st) == st
Cancel(st) ==
    IF st \in {"get", "send", "recv", "run"} THEN "cancelling" ELSE st

\* ---- new_client, finally block ----
Finally(s) ==
    /\ snd' = [snd EXCEPT ![s] = Cancel(@)]
    /\ rcv' = [rcv EXCEPT ![s] = Cancel(@)]
    /\ wd' = [wd EXCEPT ![s] = Cancel(@)]
    /\ IF ShouldNotify(s)
       THEN f_conn_lost(s)
       ELSE UNCHANGED <<notified, base_servers, transport>>

\* ---- new_client: websockets.connect raised ----
HandshakeFail(s) ==
    /\ pc[s] = "connecting"
    /\ Failures < MaxFail
    /\ pc' = [pc EXCEPT ![s] = "ended"]
    /\ outcome' = [outcome EXCEPT ![s] = "connfail"]
    /\ Finally(s)
    /\ UNCHANGED <<mode, idle_timeout, nsess, client, shutdown, que, inflight,
                   cnt, base, enq, sent, delivered, abortErr, abortedEarly,
                   quiet, idleHit>>

\* ---- the members of {self.shutdown, *tasks} that are done ----
Done(s) ==
    (IF shutdown[s] THEN {"abort"} ELSE {})
      \cup (IF snd[s] = "failed" THEN {"error"} ELSE {})
      \cup (IF rcv[s] = "failed" THEN {"error"} ELSE {})
      \cup (IF wd[s] = "raised" THEN {"idle"} ELSE {})

\* ---- Watchdog.start: "if self.cnt == self.timeout" ----
WatchdogFiresNever(c, t) == FALSE
WatchdogFires(c, t) == c = t

\* ---- Watchdog.start: one turn of the loop after asyncio.sleep(1) ----
Tick(s) ==
    /\ wd[s] = "run"
    /\ cnt' = [cnt EXCEPT ![s] = @ + 1]
    /\ wd' = [wd EXCEPT ![s] = IF WatchdogFires(cnt[s] + 1, idle_timeout)
                                THEN "raised" ELSE @]
    /\ quiet' = [quiet EXCEPT ![s] = @ + 1]
    /\ idleHit' = [idleHit EXCEPT
                     ![s] = @ \/ (/\ pc[s] = "active"
                                  /\ Done(s) = {}
                                  /\ quiet[s] + 1 >= idle_timeout)]
    /\ UNCHANGED <<mode, idle_timeout, nsess, client, pc, shutdown, que,
                   inflight, snd, rcv, base_servers, transport, base, enq, sent,
                   delivered, notified, outcome, abortErr, abortedEarly>>

\* ---- ws_data_sender: que.get() returns after a put woke the task ----
SenderTake(s) ==
    /\ snd[s] = "get"
    /\ que[s] # <<>>
    /\ SenderNext(s, que[s])
    /\ UNCHANGED <<mode, idle_timeout, nsess, client, pc, shutdown, rcv, wd,
                   cnt, base_servers, transport, base>>
    /\ UNCHANGED histVars

\* ---- ws_data_sender: ws.send returned; task_done, reset, next get ----
SendOk(s) ==
    /\ snd[s] = "send"
    /\ sent' = [sent EXCEPT ![s] = Append(@, inflight[s][1])]
    /\ WatchdogReset(s)
    /\ quiet' = [quiet EXCEPT ![s] = 0]
    /\ SenderNext(s, que[s])
    /\ UNCHANGED <<mode, idle_timeout, nsess, client, pc, shutdown, rcv, wd,
                   base_servers, transport, base, enq, delivered, notified, outcome,
                   abortErr, abortedEarly, idleHit>>

\* ---- ws_data_sender: ws.send raised (tunnel closed or broken) ----
SendFail(s) ==
    /\ snd[s] = "send"
    /\ Failures < MaxFail
    /\ snd' = [snd EXCEPT ![s] = "failed"]
    /\ inflight' = [inflight EXCEPT ![s] = <<>>]
    /\ UNCHANGED <<mode, idle_timeout, nsess, client, pc, shutdown, que, rcv,
                   wd, cnt, base_servers, transport, base>>
    /\ UNCHANGED histVars

\* ---- ws_data_receiver: ws.recv returned a message; deliver, reset ----
RecvMsg(s) ==
    /\ rcv[s] = "recv"
    /\ TotalRecv < MaxRecv
    /\ delivered' = [delivered EXCEPT ![s] = @ + 1]
    /\ WatchdogReset(s)
    /\ quiet' = [quiet EXCEPT ![s] = 0]
    /\ UNCHANGED <<mode, idle_timeout, nsess, client, pc, shutdown, que,
                   inflight, snd, rcv, wd, base_servers, transport, base, enq, sent,
                   notified, outcome, abortErr, abortedEarly, idleHit>>

\* ---- ws_data_receiver: ws.recv raised (tunnel closed or broken) ----
RecvFail(s) ==
    /\ rcv[s] = "recv"
    /\ Failures < MaxFail
    /\ rcv' = [rcv EXCEPT ![s] = "failed"]
    /\ UNCHANGED <<mode, idle_timeout, nsess, client, pc, shutdown, que,
                   inflight, snd, wd, cnt, base_servers, transport, base>>
    /\ UNCHANGED histVars

\* ---- new_client: asyncio.wait returned; done.pop() takes any member of
\* ---- done; the "async with" block is left and waits for ws.close() ----
Resolve(s) ==
    /\ pc[s] = "active"
    /\ \E w \in Done(s) : outcome' = [outcome EXCEPT ![s] = w]
    /\ pc' = [pc EXCEPT ![s] = "closing"]
    /\ UNCHANGED <<mode, idle_timeout, nsess, client, shutdown, que, inflight,
                   snd, rcv, wd, cnt, base_servers, transport, base, enq, sent,
                   delivered, notified, abortErr, abortedEarly, quiet,
                   idleHit>>

\* ---- new_client: ws.close() returned; except and finally run ----
Finish(s) ==
    /\ pc[s] = "closing"
    /\ pc' = [pc EXCEPT ![s] = "ended"]
    /\ Finally(s)
    /\ UNCHANGED <<mode, idle_timeout, nsess, client, shutdown, que, inflight,
                   cnt, base, enq, sent, delivered, outcome, abortErr, abortedEarly, quiet, idleHit>>

\* ---- the event loop throws CancelledError into the cancelled tasks ----
ReapedNever(st) == st
Reaped(st) == IF st = "cancelling" THEN "cancelled" ELSE st

CancelDelivered(s) ==
    /\ "cancelling" \in {snd[s], rcv[s], wd[s]}
    /\ snd' = [snd EXCEPT ![s] = Reaped(@)]
    /\ rcv' = [rcv EXCEPT ![s] = Reaped(@)]
    /\ wd' = [wd EXCEPT ![s] = Reaped(@)]
    /\ UNCHANGED <<mode, idle_timeout, nsess, client, pc, shutdown, que,
                   inflight, cnt, base_servers, transport, base>>
    /\ UNCHANGED histVars

Next ==
    \/ \E a \in Addrs : datagram_received(a)
    \/ connection_made
    \/ tcp_data_received
    \/ connection_lost
    \/ \E s \in Sess : AbortAgain(s)
    \/ \E s \in Sess : HandshakeOk(s)
    \/ \E s \in Sess : HandshakeFail(s)
    \/ \E s \in Sess : Tick(s)
    \/ \E s \in Sess : SenderTake(s)
    \/ \E s \in Sess : SendOk(s)
    \/ \E s \in Sess : SendFail(s)
    \/ \E s \in Sess : RecvMsg(s)
    \/ \E s \in Sess : RecvFail(s)
    \/ \E s \in Sess : Resolve(s)
    \/ \E s \in Sess : Finish(s)
    \/ \E s \in Sess : CancelDelivered(s)

Spec == Init /\ [][Next]_vars

\* ---- the event loop runs every ready callback and task; a handshake, a
\* ---- send and ws.close() each complete or fail ----
Fairness ==
    \A s \in Sess :
        /\ WF_vars(HandshakeOk(s) \/ HandshakeFail(s))
        /\ WF_vars(SenderTake(s))
        /\ WF_vars(SendOk(s) \/ SendFail(s))
        /\ WF_vars(Resolve(s))
        /\ WF_vars(Finish(s))
        /\ WF_vars(CancelDelivered(s))

FairSpec == Spec /\ Fairness

TypeOK ==
    /\ mode \in {"udp", "tcp"}
    /\ idle_timeout \in 0..MaxTimeout
    /\ nsess \in 0..MaxSessions
    /\ transport \in {"none", "open", "closing", "lost"}
    /\ base \in {0, 1}
    /\ \A s \in Sess :
        /\ pc[s] \in {"none", "connecting", "active", "closing", "ended"}
        /\ snd[s] \in {"none", "get", "send", "failed", "cancelling", "cancelled"}
        /\ rcv[s] \in {"none", "recv", "failed", "cancelling", "cancelled"}
        /\ wd[s] \in {"none", "run", "raised", "cancelling", "cancelled"}
        /\ Len(inflight[s]) <= 1
        /\ Len(enq[s]) <= MaxBuf
        /\ Len(sent[s]) <= Len(enq[s])
        /\ cnt[s] \in 0..MaxTimeout
        /\ notified[s] \in 0..1
        /\ (s \in Created) = (pc[s] # "none")

IsPrefix(a, b) == Len(a) <= Len(b) /\ SubSeq(b, 1, Len(a)) = a

\* ---------------------------------------------------------------------
\* C1: every session that ended without abort() having been called before
\* its race resolved (or before its handshake failed) has invoked
\* f_conn_lost exactly once, also when abort() arrives after the race
\* resolved.
C1_EndedNotifiesOnce ==
    \A s \in Sess :
        (pc[s] = "ended" /\ ~abortedEarly[s]) => notified[s] = 1

\* ---------------------------------------------------------------------
\* C2: no call of abort() fails; a second call on the same session is a
\* no-op.
C2_AbortNeverFails ==
    \A s \in Sess : ~abortErr[s]

\* ---------------------------------------------------------------------
\* C3: a session on which abort() was called while connecting or active
\* never invokes f_conn_lost, whatever its tasks do afterwards, and it
\* terminates.
C3_AbortSuppressesEnded ==
    /\ [](\A s \in Sess : abortedEarly[s] => notified[s] = 0)
    /\ \A s \in Sess : (abortedEarly[s] ~> pc[s] = "ended")

C3_Witness ==
    \E s \in Sess :
        /\ abortedEarly[s]
        /\ pc[s] = "ended"
        /\ (wd[s] = "raised" \/ rcv[s] = "failed" \/ snd[s] = "failed")

\* ---------------------------------------------------------------------
\* C4: the UDP listener has at most one session that has not ended per
\* source address, and that session is the one in the table.
LiveFor(a) == {s \in Created : client[s] = a /\ pc[s] # "ended"}

C4_OneLivePerAddr ==
    mode = "udp" =>
        \A a \in Addrs :
            /\ Cardinality(LiveFor(a)) <= 1
            /\ \A s \in LiveFor(a) : base_servers[a] = s

C4_Witness ==
    /\ mode = "udp"
    /\ \E s1, s2 \in Created :
        /\ s1 < s2
        /\ client[s1] = client[s2]
        /\ pc[s1] = "ended"
        /\ pc[s2] # "ended"

\* ---------------------------------------------------------------------
\* C5: the buffers sent on the tunnel are at every moment a prefix of the
\* buffers passed to data_received, in the same order.
C5_SentIsPrefix ==
    \A s \in Sess : IsPrefix(sent[s], enq[s])

C5_Witness ==
    /\ mode = "tcp"
    /\ \E s \in Sess : Len(sent[s]) >= 2 /\ sent[s] = enq[s]

\* ---------------------------------------------------------------------
\* C6 (as stated): the n datagrams received for a UDP session produce
\* exactly n tunnel messages: when the session has ended, every datagram
\* it was handed has been sent.
C6_NoDatagramDropped ==
    mode = "udp" =>
        \A s \in Sess : pc[s] = "ended" => sent[s] = enq[s]

\* C6 (amended): the tunnel messages of a UDP session are content-identical
\* to, and in the order of, the first datagrams it was handed, one message
\* per datagram; while the session is connecting or active and no send has
\* failed, every other datagram is in flight or queued (none dropped or
\* duplicated).  Datagrams still queued when the session ends are dropped.
C6_DatagramsOneToOne ==
    mode = "udp" =>
        \A s \in Sess :
            /\ Len(sent[s]) <= Len(enq[s])
            /\ \A i \in 1..Len(sent[s]) : sent[s][i] = enq[s][i]
            /\ (pc[s] \in {"connecting", "active"} /\ snd[s] # "failed") =>
                   Len(sent[s]) + Len(inflight[s]) + Len(que[s]) = Len(enq[s])

C6_Witness ==
    /\ mode = "udp"
    /\ \E s \in Sess :
        /\ pc[s] = "active"
        /\ enq[s] = <<1, 2>>
        /\ sent[s] = <<1, 2>>

\* ---------------------------------------------------------------------
\* C7 (as stated): every buffer enqueued while the session is connecting is
\* eventually sent, unless the handshake fails.
C7_EarlyEventuallySent ==
    \A s \in Sess : \A n \in 1..MaxBuf :
        (pc[s] = "connecting" /\ Len(enq[s]) >= n)
            ~> (Len(sent[s]) >= n \/ outcome[s] = "connfail")

\* C7 (amended): every buffer enqueued while the session is connecting
\* stays in the queue until the connection is established, is handed to
\* the sender in enqueue order ahead of every later buffer, and is
\* eventually sent unless the session ends first.
C7_EarlyRetainedAndSent ==
    /\ [](\A s \in Sess : pc[s] = "connecting" => que[s] = enq[s])
    /\ [][\A s \in Sess :
            (pc[s] = "connecting" /\ pc'[s] = "active")
                => inflight'[s] \o que'[s] = enq[s]]_vars
    /\ [](\A s \in Sess :
            snd[s] \in {"get", "send"} => sent[s] \o inflight[s] \o que[s] = enq[s])
    /\ \A s \in Sess : \A n \in 1..MaxBuf :
        (pc[s] = "connecting" /\ Len(enq[s]) >= n)
            ~> (Len(sent[s]) >= n \/ pc[s] \in {"closing", "ended"})

C7_Witness ==
    /\ mode = "udp"
    /\ \E s \in Sess :
        /\ pc[s] = "active"
        /\ sent[s] = <<1>>
        /\ Len(enq[s]) = 2

\* ---------------------------------------------------------------------
\* C8: a session whose handshake failed and that had not been aborted has
\* invoked f_conn_lost exactly once and started no task; the UDP table no
\* longer holds it, so the next datagram from its address creates a new
\* session; the TCP connection is closed.
C8_HandshakeFailure ==
    /\ [](\A s \in Sess :
            (outcome[s] = "connfail" /\ ~abortedEarly[s]) =>
                /\ notified[s] = 1
                /\ snd[s] = "none" /\ rcv[s] = "none" /\ wd[s] = "none"
                /\ mode = "udp" => base_servers[client[s]] # s
                /\ mode = "tcp" => transport # "open")
    /\ [][\A a \in Addrs :
            (mode = "udp" /\ base_servers[a] = 0 /\ base_servers'[a] # 0) =>
                /\ nsess' = nsess + 1
                /\ base_servers'[a] = nsess'
                /\ pc'[nsess'] = "connecting"
                /\ que'[nsess'] = <<1>>]_vars

C8_Witness ==
    /\ mode = "udp"
    /\ \E s1, s2 \in Created :
        /\ s1 < s2
        /\ client[s1] = client[s2]
        /\ outcome[s1] = "connfail"
        /\ notified[s1] = 1
        /\ pc[s2] = "active"

\* ---------------------------------------------------------------------
\* C9: a UDP session that stayed without a completed send or receive for
\* idle_timeout ticks while active (its Watchdog being the first member of
\* the race to settle) ends with the idle outcome and its table entry
\* removed.
C9_IdleTeardown ==
    mode = "udp" =>
        \A s \in Sess :
            (idleHit[s] /\ pc[s] = "ended") =>
                /\ outcome[s] = "idle"
                /\ base_servers[client[s]] # s

\* ---------------------------------------------------------------------
\* C10: a step in which the session of address A fails or is torn down
\* leaves the table entry, queue, shutdown signal and tasks of the session
\* of every other address B unchanged.
TeardownStep(a) ==
    \/ pc'[a] # pc[a] /\ pc'[a] \in {"closing", "ended"}
    \/ snd'[a] # snd[a] /\ snd'[a] \in {"failed", "cancelling", "cancelled"}
    \/ rcv'[a] # rcv[a] /\ rcv'[a] \in {"failed", "cancelling", "cancelled"}
    \/ wd'[a] # wd[a] /\ wd'[a] \in {"raised", "cancelling", "cancelled"}

C10_Isolation ==
    [][\A a, b \in Created :
        (mode = "udp" /\ client[a] # client[b] /\ TeardownStep(a)) =>
            /\ base_servers'[client[b]] = base_servers[client[b]]
            /\ que'[b] = que[b]
            /\ inflight'[b] = inflight[b]
            /\ shutdown'[b] = shutdown[b]
            /\ pc'[b] = pc[b]
            /\ snd'[b] = snd[b]
            /\ rcv'[b] = rcv[b]
            /\ wd'[b] = wd[b]
            /\ cnt'[b] = cnt[b]]_vars

C10_Witness ==
    /\ mode = "udp"
    /\ \E a, b \in Created :
        /\ client[a] # client[b]
        /\ pc[a] = "ended"
        /\ outcome[a] \in {"error", "connfail"}
        /\ base_servers[client[a]] = 0
        /\ pc[b] = "active"
        /\ base_servers[client[b]] = b
        /\ snd[b] = "send"

\* ---------------------------------------------------------------------
\* C11: with idle_timeout = 0 no session has a Watchdog and none ends with
\* the idle outcome; a session whose race resolved ended by tunnel failure
\* or abort.
C11_ZeroTimeoutNeverIdle ==
    idle_timeout = 0 =>
        \A s \in Sess :
            /\ wd[s] = "none"
            /\ ~idleHit[s]
            /\ outcome[s] # "idle"
            /\ pc[s] \in {"closing", "ended"} =>
                   outcome[s] \in {"abort", "error", "connfail"}

C11_Witness ==
    /\ idle_timeout = 0
    /\ \E s \in Sess :
        /\ pc[s] = "ended"
        /\ outcome[s] = "error"
        /\ Len(sent[s]) >= 1

\* ---------------------------------------------------------------------
\* C12: when a session has finished (new_client returned, f_conn_lost
\* invoked), none of its tasks is still running or pending: each has
\* terminated.
Terminated(st) == st \in {"none", "failed", "raised", "cancelled"}

C12_TasksTerminatedAtEnd ==
    \A s \in Sess :
        pc[s] = "ended" =>
            Terminated(snd[s]) /\ Terminated(rcv[s]) /\ Terminated(wd[s])

\* ---------------------------------------------------------------------
\* C13: the UDP listener never hands a datagram to a session whose race has
\* resolved.
C13_NoDatagramToEndedSession ==
    [][\A s \in Sess :
        (mode = "udp" /\ enq'[s] # enq[s]) =>
            pc[s] \in {"none", "connecting", "active"}]_vars

\* ---------------------------------------------------------------------
\* C14: when f_conn_lost(addr) runs for a UDP session the table maps addr
\* to that very session and the entry is removed by the call; an ended UDP
\* session has been notified exactly once and is no longer in the table;
\* a session whose race has resolved eventually has its entry removed.
C14_EntryRemovedOnce ==
    /\ [][\A s \in Sess :
            (mode = "udp" /\ notified'[s] # notified[s]) =>
                /\ notified[s] = 0
                /\ base_servers[client[s]] = s
                /\ base_servers'[client[s]] = 0
                /\ pc'[s] = "ended"]_vars
    /\ [](mode = "udp" =>
            \A s \in Sess :
                pc[s] = "ended" =>
                    notified[s] = 1 /\ base_servers[client[s]] # s)
    /\ \A s \in Sess :
        (mode = "udp" /\ pc[s] = "closing")
            ~> (pc[s] = "ended" /\ base_servers[client[s]] # s)

C14_Witness ==
    /\ mode = "udp"
    /\ \E s \in Sess :
        /\ pc[s] = "ended"
        /\ outcome[s] = "idle"
        /\ notified[s] = 1
        /\ base_servers[client[s]] = 0

\* ---------------------------------------------------------------------
\* C15: with a positive idle_timeout N the running Watchdog's counter is
\* the number of ticks since the last completed send or receive (every
\* reset restarts it from zero) and stays below N; a tick raises the
\* idle failure exactly when it is the N-th tick since the last reset, so
\* a session that resets within every N ticks never expires.
C15_WatchdogFiresAtN ==
    /\ [](\A s \in Sess :
            wd[s] = "run" => (cnt[s] = quiet[s] /\ cnt[s] < idle_timeout))
    /\ [][\A s \in Sess :
            (wd[s] = "run" /\ quiet'[s] = quiet[s] + 1) =>
                ((wd'[s] = "raised") <=> (quiet'[s] = idle_timeout))]_vars
    /\ [][\A s \in Sess :
            (wd[s] # "none" /\ (sent'[s] # sent[s] \/ delivered'[s] # delivered[s]))
                => cnt'[s] = 0]_vars

C15_Witness ==
    /\ idle_timeout = 2
    /\ \E s \in Sess :
        /\ wd[s] = "raised"
        /\ cnt[s] = 2
        /\ Len(sent[s]) + delivered[s] >= 1

\* ---------------------------------------------------------------------
\* C16: a session on which abort() was called while connecting or active
\* eventually finishes with none of its tasks running or pending, without
\* any further local traffic.
C16_AbortEventuallyFinishes ==
    \A s \in Sess :
        abortedEarly[s] ~>
            /\ pc[s] = "ended"
            /\ Terminated(snd[s]) /\ Terminated(rcv[s]) /\ Terminated(wd[s])

C16_Witness ==
    \E s \in Sess :
        /\ abortedEarly[s]
        /\ pc[s] = "ended"
        /\ snd[s] = "cancelled"
        /\ rcv[s] = "cancelled"

\* ---------------------------------------------------------------------
\* C17: once the finally block of a session has run, f_write_to_transport
\* is never invoked again by that session.
C17_NoDeliveryAfterCleanup ==
    [][\A s \in Sess : pc[s] = "ended" => delivered'[s] = delivered[s]]_vars

C17_Witness ==
    \E s \in Sess :
        /\ pc[s] = "ended"
        /\ delivered[s] >= 1
        /\ rcv[s] \in {"cancelling", "cancelled"}

\* ---------------------------------------------------------------------
\* C18 (as stated): when the handshake succeeds on a session whose shutdown
\* signal is already set, the sender starts no send.
C18_NoSendAfterEarlyAbort ==
    [][\A s \in Sess :
        (pc[s] = "connecting" /\ shutdown[s] /\ pc'[s] = "active")
            => inflight'[s] = <<>>]_vars

\* C18 (amended): when the handshake succeeds on a session whose shutdown
\* signal is already set, the tasks are still started: the sender starts
\* sending the first queued buffer, and sends and deliveries may go on until
\* the finally block cancels the tasks.  The shutdown signal is among the
\* done futures at once, f_conn_lost is never invoked, and nothing is sent
\* after the finally block has run.
C18_EarlyAbortStillStartsTasks ==
    /\ [][\A s \in Sess :
            (pc[s] = "connecting" /\ shutdown[s] /\ pc'[s] = "active") =>
                /\ snd'[s] \in {"get", "send"}
                /\ rcv'[s] = "recv"
                /\ que[s] # <<>> =>
                       (inflight'[s] = <<que[s][1]>> /\ que'[s] = Tail(que[s]))
                /\ que[s] = <<>> => inflight'[s] = <<>>
                /\ sent'[s] = sent[s]
                /\ delivered'[s] = delivered[s]]_vars
    /\ [](\A s \in Sess :
            (pc[s] = "active" /\ shutdown[s]) => "abort" \in Done(s))
    /\ [][\A s \in Sess :
            shutdown[s] => notified'[s] = notified[s]]_vars
    /\ [][\A s \in Sess : pc[s] = "ended" => sent'[s] = sent[s]]_vars

C18_Witness ==
    \E s \in Sess :
        /\ abortedEarly[s]
        /\ pc[s] = "ended"
        /\ outcome[s] = "abort"
        /\ Len(sent[s]) >= 1
        /\ notified[s] = 0

\* ---------------------------------------------------------------------
\* C19: with a positive idle_timeout N the Watchdog counter stays within
\* 0..N, and it equals N only when the Watchdog has fired.
C19_CounterBounded ==
    idle_timeout > 0 =>
        \A s \in Sess :
            /\ 0 <= cnt[s]
            /\ cnt[s] <= idle_timeout
            /\ cnt[s] = idle_timeout => wd[s] = "raised"

C19_Witness ==
    /\ idle_timeout > 0
    /\ \E s \in Sess :
        /\ pc[s] = "active"
        /\ cnt[s] = idle_timeout
        /\ wd[s] = "raised"

====
